---- MODULE Spec2Model ----
(***************************************************************************)
(* Country-identity reconciliation of the beneficial-ownership / registry  *)
(* openness maps: the ISO resolver (get_iso_code), the tolerance buckets   *)
(* (assign_tolerance), the geometry provider (create_world), the pandas    *)
(* left merge onto the polygons, the merge verifier and the default fill,  *)
(* as run by the scripts' main().                                          *)
(*                                                                         *)
(* Conventions.  A Python str that the code inspects character by          *)
(* character (an ISO code) is a tuple of one-character strings; country    *)
(* names, colours and URLs, which the code only copies and compares, are   *)
(* TLA+ strings.  A nullable cell (None / NaN) is Null == <<>>, a present  *)
(* value v is Some(v) == <<v>>.  Tolerances are in thousandths             *)
(* (0.001 -> 1).                                                           *)
(***************************************************************************)
EXTENDS Integers, Sequences, FiniteSets, TLC

VARIABLES
    script,        \* which script runs: "openness", "wab", "ne", "bo" or "html"
    pc,            \* position of main()
    registry,      \* the canonical registry (pycountry) installed: name -> alpha_3
    page,          \* the HTTP response of the scraped site: [status, rows]
    sheet,         \* the rows of the spreadsheet read by the BO script
    shapefile,     \* the geometry source on disk: Null (no file) or Some(features)
    df,            \* the records' DataFrame (a sequence of rows)
    world,         \* the polygons' GeoDataFrame, then the merged table
    report,        \* what verify_country_merge printed: Null or Some(names)
    output,        \* the HTML map file: Null (not written) or Some(rows drawn)
    log,           \* history: the steps the run has taken and what it reported
    name_in,       \* argument of a stand-alone get_iso_code call
    iso_out,       \* its outcome: Null before the call, then Some([exc, value])
    area_in,       \* argument of a stand-alone assign_tolerance call
    tol_out        \* its result: Null before the call, then Some(returned value)

vars == <<script, pc, registry, page, sheet, shapefile, df, world, report, output,
          log, name_in, iso_out, area_in, tol_out>>

pipelineVars == <<script, pc, page, sheet, shapefile, df, world, report, output, log>>

callVars == <<name_in, iso_out, area_in, tol_out>>

-----------------------------------------------------------------------------
(* Bounds of the model *)

MaxRecords == 3

MaxPolygons == 2

MaxArea == 100100

-----------------------------------------------------------------------------
(* Python values *)

Null == <<>>

Some(v) == <<v>>

isna(x) == x = Null

Val(x) == x[1]

\* the sequences over S of length at most n
SeqsUpTo(S, n) == UNION {[1..k -> S] : k \in 0..n}

RECURSIVE Flatten(_)
Flatten(ss) == IF ss = <<>> THEN <<>> ELSE Head(ss) \o Flatten(Tail(ss))

\* pandas Series.unique(): the values in order of first appearance
RECURSIVE Unique(_)
Unique(s) ==
    IF s = <<>> THEN <<>>
    ELSE LET front == Unique(SubSeq(s, 1, Len(s) - 1))
             last  == s[Len(s)]
         IN  IF \E i \in 1..Len(front) : front[i] = last THEN front
             ELSE Append(front, last)

Range(s) == {s[i] : i \in 1..Len(s)}

LowerLetters == <<"a","b","c","d","e","f","g","h","i","j","k","l","m",
                  "n","o","p","q","r","s","t","u","v","w","x","y","z">>

UpperLetters == <<"A","B","C","D","E","F","G","H","I","J","K","L","M",
                  "N","O","P","Q","R","S","T","U","V","W","X","Y","Z">>

Whitespace == {" ", "\t", "\n"}

\* str.upper() on one character
UpperChar(c) ==
    IF \E i \in 1..26 : LowerLetters[i] = c
    THEN UpperLetters[CHOOSE i \in 1..26 : LowerLetters[i] = c]
    ELSE c

\* str.upper()
upper(s) == [i \in 1..Len(s) |-> UpperChar(s[i])]

RECURSIVE lstrip(_)
lstrip(s) == IF s # <<>> /\ Head(s) \in Whitespace THEN lstrip(Tail(s)) ELSE s

RECURSIVE rstrip(_)
rstrip(s) ==
    IF s # <<>> /\ s[Len(s)] \in Whitespace THEN rstrip(SubSeq(s, 1, Len(s) - 1)) ELSE s

\* str.strip()
strip(s) == rstrip(lstrip(s))

\* Series.str.strip().str.upper() on one cell: a missing cell stays missing
StrStripUpper(cell) == IF isna(cell) THEN Null ELSE Some(upper(strip(Val(cell))))

\* Series.str.strip() on one cell
StrStrip(cell) == IF isna(cell) THEN Null ELSE Some(strip(Val(cell)))

-----------------------------------------------------------------------------
(* ISO resolver: map_plotting_functions.get_iso_code *)

\* outcome of a call: it returned `value`, or it raised `exc`
Return(v) == [exc |-> "", value |-> v]

Raise(e) == [exc |-> e, value |-> Null]

\* records of the canonical registry (pycountry.countries) that the model's
\* names can hit, by the name they are looked up under
PyCountryAlpha3 ==
    "France" :> <<"F","R","A">> @@
    "French Guiana" :> <<"G","U","F">> @@
    "Guadeloupe" :> <<"G","L","P">> @@
    "Martinique" :> <<"M","T","Q">> @@
    "Mayotte" :> <<"M","Y","T">> @@
    "Réunion" :> <<"R","E","U">> @@
    "Bolivia" :> <<"B","O","L">> @@
    "Egypt" :> <<"E","G","Y">>

Restrict(f, D) == [x \in D |-> f[x]]

\* the registries a run may find installed: the lookups that succeed differ
\* between releases of the registry's data
Registries == {Restrict(PyCountryAlpha3, D) : D \in SUBSET DOMAIN PyCountryAlpha3}

\* pycountry.countries.lookup(country_name): the record, or LookupError
lookup(value) ==
    IF value \in DOMAIN registry
    THEN Return([alpha_3 |-> registry[value]])
    ELSE Raise("LookupError")

\* faulty variant of manual_mappings: an entry that is not a 3-letter code
manual_mappings_two_letter ==
    "Kosovo" :> <<"X","K">> @@
    "Bolivia" :> <<"B","O","L">>

manual_mappings ==
    "Russia" :> <<"R","U","S">> @@
    "Bolivia" :> <<"B","O","L">> @@
    "Vietnam" :> <<"V","N","M">> @@
    "Tanzania" :> <<"T","Z","A">> @@
    "Moldova" :> <<"M","D","A">> @@
    "Syria" :> <<"S","Y","R">> @@
    "Laos" :> <<"L","A","O">> @@
    "Venezuela" :> <<"V","E","N">> @@
    "Iran" :> <<"I","R","N">> @@
    "Egypt" :> <<"E","G","Y">> @@
    "Bahamas, The" :> <<"B","H","S">> @@
    "Congo, Dem. Rep." :> <<"C","O","D">> @@
    "Congo, Rep." :> <<"C","O","G">> @@
    "Egypt, Arab Rep." :> <<"E","G","Y">> @@
    "French Guiana" :> <<"F","R","A">> @@
    "Gambia, The" :> <<"G","M","B">> @@
    "Guadeloupe" :> <<"F","R","A">> @@
    "Hong Kong Sar" :> <<"H","K","G">> @@
    "Iran, Islamic Rep." :> <<"I","R","N">> @@
    "Korea, Rep." :> <<"K","O","R">> @@
    "Kosovo" :> <<"X","K","X">> @@
    "Lao Pdr" :> <<"L","A","O">> @@
    "Macedonia, Fyr" :> <<"M","K","D">> @@
    "Martinique" :> <<"F","R","A">> @@
    "Mayotte" :> <<"F","R","A">> @@
    "Micronesia, Fed. Sts." :> <<"F","S","M">> @@
    "Réunion" :> <<"F","R","A">> @@
    "South Sudan" :> <<"S","S","D">> @@
    "St. Kitts and Nevis" :> <<"K","N","A">> @@
    "St. Lucia" :> <<"L","C","A">> @@
    "St. Vincent and the Grenadines" :> <<"V","C","T">> @@
    "Swaziland" :> <<"S","W","Z">> @@
    "São Tomé and Príncipe" :> <<"S","T","P">> @@
    "Turkey" :> <<"T","U","R">> @@
    "Venezuela, Rb" :> <<"V","E","N">> @@
    "West Bank and Gaza" :> <<"P","S","E">> @@
    "Yemen, Rep." :> <<"Y","E","M">>

\* faulty variant of DictGet: the override table is never hit
DictGet_miss(d, key) == Null

\* dict.get(key, None)
DictGet(d, key) == IF key \in DOMAIN d THEN Some(d[key]) ELSE Null

\* faulty variant of get_iso_code: the LookupError is not caught
get_iso_code_uncaught(country_name) ==
    LET found == lookup(country_name)
    IN  IF found.exc = "" THEN Return(Some(found.value.alpha_3))
        ELSE Raise(found.exc)

\* try: lookup(...).alpha_3  except LookupError: manual_mappings.get(...)
get_iso_code(country_name) ==
    LET found == lookup(country_name)
    IN  IF found.exc = "" THEN Return(Some(found.value.alpha_3))
        ELSE IF found.exc = "LookupError"
             THEN Return(DictGet(manual_mappings, country_name))
             ELSE Raise(found.exc)

\* the resolver of the two earlier openness scripts: no override table
get_iso_code_plain(country_name) ==
    LET found == lookup(country_name)
    IN  IF found.exc = "" THEN Return(Some(found.value.alpha_3))
        ELSE IF found.exc = "LookupError" THEN Return(Null)
             ELSE Raise(found.exc)

-----------------------------------------------------------------------------
(* Tolerance buckets: map_plotting_functions.assign_tolerance *)

\* a float threshold: finite v, or float('inf')
Finite(v) == [inf |-> FALSE, v |-> v]

FloatInf == [inf |-> TRUE, v |-> 0]

\* faulty variant of FloatLess: the upper bounds taken as inclusive
FloatLess_inclusive(a, t) == t.inf \/ a <= t.v

\* area < threshold for a finite area
FloatLess(a, t) == t.inf \/ a < t.v

\* faulty variant of SHAPEFILE_RESOLUTION_BY_COUNTRY_SIZE: the tolerances are
\* listed from the coarsest to the finest
SHAPEFILE_RESOLUTION_coarsest_first ==
    << <<Finite(1000), 100>>,
       <<Finite(10000), 50>>,
       <<Finite(100000), 5>>,
       <<FloatInf, 1>> >>

\* the dict's items in insertion order; tolerances in thousandths
SHAPEFILE_RESOLUTION_BY_COUNTRY_SIZE ==
    << <<Finite(1000), 1>>,
       <<Finite(10000), 5>>,
       <<Finite(100000), 50>>,
       <<FloatInf, 100>> >>

\* for threshold, tolerance in items: if area_km2 < threshold: return tolerance
RECURSIVE FirstBucket(_, _)
FirstBucket(items, area_km2) ==
    IF items = <<>> THEN Null      \* the loop ends: the function returns None
    ELSE IF FloatLess(area_km2, Head(items)[1]) THEN Some(Head(items)[2])
         ELSE FirstBucket(Tail(items), area_km2)

assign_tolerance(area_km2) == FirstBucket(SHAPEFILE_RESOLUTION_BY_COUNTRY_SIZE, area_km2)

-----------------------------------------------------------------------------
(* Inputs of a run: the scraped page, the spreadsheet, the geometry source *)

\* the <tr data-href> rows the scraped page can hold
PageRows ==
    { [name |-> "France", score |-> "100/100", href |-> "france"],
      [name |-> "French Guiana", score |-> "0/100", href |-> "french_guiana"],
      [name |-> "Kosovo", score |-> "n/a", href |-> "kosovo"],
      [name |-> "Atlantis", score |-> "100/100", href |-> "atlantis"] }

\* requests.get(url): a failure status, or 200 with some rows
Pages ==
    {[status |-> 503, rows |-> r] : r \in SeqsUpTo(PageRows, 1)} \cup
    {[status |-> 200, rows |-> r] : r \in SeqsUpTo(PageRows, MaxRecords)}

\* the pages the two variants of the openness script are run with
VariantPages == {p \in Pages : Len(p.rows) < MaxRecords}

\* the features a geometry source can hold: raw ISO key (ADM0_A3 / iso3),
\* raw two-letter key (ISO_A2), display name (NAME / name), SOVEREIGNT, area
\* of the reprojected geometry
Features ==
    { [key |-> Some(<<"F","R","A">>), a2 |-> Some(<<"F","R">>), name |-> "France",
       sovereign |-> "France", area |-> 549000],
      [key |-> Some(<<"F","R","A">>), a2 |-> Some(<<"f","r">>), name |-> "Fr. Guiana",
       sovereign |-> "France", area |-> 83534],
      [key |-> Some(<<" ","b","o","l">>), a2 |-> Some(<<" ","b","o">>),
       name |-> "Bolivia", sovereign |-> "Bolivia", area |-> 1098581],
      [key |-> Null, a2 |-> Null, name |-> "Aksai Chin",
       sovereign |-> "Aksai Chin", area |-> 999] }

\* the geometry source: no file at the path, or a file with some features
Shapefiles == {Null} \cup {Some(f) : f \in SeqsUpTo(Features, MaxPolygons)}

\* the registry releases the pipeline runs are checked with: the full data, and
\* one where the lookups of the French overseas territories fail
InstalledRegistries ==
    { PyCountryAlpha3,
      Restrict(PyCountryAlpha3, {"France", "Bolivia", "Egypt"}) }

-----------------------------------------------------------------------------
(* Scraping: fetch_country_data, create_dataframe, assign_colors *)

\* int(score_text.split('/')[0]): the number before the slash, or ValueError
ParseScore(score_text) ==
    CASE score_text = "100/100" -> Return(100)
      [] score_text = "0/100" -> Return(0)
      [] OTHER -> Raise("ValueError")

\* one row of fetch_country_data's loop (part_000:31-46): a bad score is 0
ScrapeRow(row) ==
    LET parsed == ParseScore(row.score)
        iso    == get_iso_code(row.name)
    IN  IF iso.exc # "" THEN Raise(iso.exc)
        ELSE Return([Country |-> row.name,
                     Openness_Score |-> IF parsed.exc = "" THEN parsed.value ELSE 0,
                     URL |-> "http://registries.opencorporates.com/" \o row.href,
                     ISO_Code |-> iso.value])

\* one row of the loop of the world-administrative-boundaries script
\* (part_000:241-252): the score is parsed unguarded, no override table
ScrapeRowWab(row) ==
    LET parsed == ParseScore(row.score)
        iso    == get_iso_code_plain(row.name)
    IN  IF parsed.exc # "" THEN Raise(parsed.exc)
        ELSE IF iso.exc # "" THEN Raise(iso.exc)
        ELSE Return([Country |-> row.name,
                     Openness_Score |-> parsed.value,
                     URL |-> "http://registries.opencorporates.com/" \o row.href,
                     ISO_Code |-> iso.value])

\* the loop over the rows: the list built, or the first exception
RECURSIVE ScrapeRows(_, _)
ScrapeRows(rows, wab) ==
    IF rows = <<>> THEN Return(<<>>)
    ELSE LET first == IF wab THEN ScrapeRowWab(Head(rows)) ELSE ScrapeRow(Head(rows))
             rest  == ScrapeRows(Tail(rows), wab)
         IN  IF first.exc # "" THEN Raise(first.exc)
             ELSE IF rest.exc # "" THEN Raise(rest.exc)
             ELSE Return(<<first.value>> \o rest.value)

\* fetch_country_data(url)
fetch_country_data(response, wab) ==
    IF response.status # 200 THEN Return(<<>>)
    ELSE ScrapeRows(response.rows, wab)

\* one row of the loop of the Natural Earth script (part_000:431-446): a bad
\* score is 0, no override table
ScrapeRowNe(row) ==
    LET parsed == ParseScore(row.score)
        iso    == get_iso_code_plain(row.name)
    IN  IF iso.exc # "" THEN Raise(iso.exc)
        ELSE Return([Country |-> row.name,
                     Openness_Score |-> IF parsed.exc = "" THEN parsed.value ELSE 0,
                     URL |-> "http://registries.opencorporates.com/" \o row.href,
                     ISO_Code |-> iso.value])

\* fetch_country_data(url) of the Natural Earth script: the status of the
\* response is not looked at
RECURSIVE fetch_country_data_ne(_)
fetch_country_data_ne(rows) ==
    IF rows = <<>> THEN Return(<<>>)
    ELSE LET first == ScrapeRowNe(Head(rows))
             rest  == fetch_country_data_ne(Tail(rows))
         IN  IF first.exc # "" THEN Raise(first.exc)
             ELSE IF rest.exc # "" THEN Raise(rest.exc)
             ELSE Return(<<first.value>> \o rest.value)

\* matplotlib.colors.rgb2hex(cmap(norm(score))) with the 'Blues' colormap
BluesHex(score) == IF score = 0 THEN "#f7fbff" ELSE "#08306b"

\* pd.DataFrame(country_data): every cell of a frame is nullable; a None of
\* the dicts is a missing cell
create_dataframe(country_data) ==
    [i \in 1..Len(country_data) |->
        [Country |-> Some(country_data[i].Country),
         Openness_Score |-> Some(country_data[i].Openness_Score),
         URL |-> Some(country_data[i].URL),
         ISO_Code |-> country_data[i].ISO_Code]]

\* df['color'] = df['Openness Score'].apply(...)
assign_colors(frame) ==
    [i \in 1..Len(frame) |->
        frame[i] @@ [color |-> Some(BluesHex(Val(frame[i].Openness_Score)))]]

-----------------------------------------------------------------------------
(* Geometry provider: map_plotting_functions.create_world *)

\* faulty variant of create_world: the path is not tested, a missing file reads
\* as no features
create_world_no_check ==
    LET raw == IF isna(shapefile) THEN <<>> ELSE Val(shapefile)
    IN  Return([i \in 1..Len(raw) |->
                   [key |-> StrStripUpper(raw[i].key),
                    name |-> raw[i].name,
                    sovereign |-> raw[i].sovereign,
                    tolerance |-> assign_tolerance(raw[i].area)]])

\* the normalised polygon table, or the exception for a missing file
create_world ==
    IF isna(shapefile) THEN Raise("Exception")
    ELSE LET raw == Val(shapefile)
         IN  Return([i \in 1..Len(raw) |->
                        [key |-> StrStripUpper(raw[i].key),
                         name |-> raw[i].name,
                         sovereign |-> raw[i].sovereign,
                         tolerance |-> assign_tolerance(raw[i].area)]])

-----------------------------------------------------------------------------
(* Reconciliation merge: DataFrame.merge(df, left_on, right_on, how='left') *)

\* pandas compares join keys with missing keys equal to each other
KeysMatch(a, b) ==
    \/ isna(a) /\ isna(b)
    \/ ~isna(a) /\ ~isna(b) /\ Val(a) = Val(b)

\* the positions of the right rows whose key matches k, in the right's order
RECURSIVE MatchesFrom(_, _, _, _)
MatchesFrom(right, right_on, k, j) ==
    IF j > Len(right) THEN <<>>
    ELSE (IF KeysMatch(k, right[j][right_on]) THEN <<j>> ELSE <<>>)
         \o MatchesFrom(right, right_on, k, j + 1)

\* the merged rows of left row i: one per matching right row, or one with the
\* right's columns missing.  poly and rec record where a merged row comes from
\* (the position of its polygon, of its record or 0): they are not columns.
LeftRowMerged(left, right, cols, left_on, right_on, i) ==
    LET m == MatchesFrom(right, right_on, left[i][left_on], 1)
    IN  IF m = <<>>
        THEN << left[i] @@ [c \in cols |-> Null] @@ [poly |-> i, rec |-> 0] >>
        ELSE [n \in 1..Len(m) |-> left[i] @@ right[m[n]] @@ [poly |-> i, rec |-> m[n]]]

\* left.merge(right, left_on=..., right_on=..., how='left'): left order kept
MergeLeft(left, right, cols, left_on, right_on) ==
    Flatten([i \in 1..Len(left) |->
                LeftRowMerged(left, right, cols, left_on, right_on, i)])

-----------------------------------------------------------------------------
(* Merge verifier: map_plotting_functions.verify_country_merge *)

\* Python's order of the str values that are country names in the model
NameOrder == <<"Atlantis", "Bolivia", "France", "French Guiana", "Kosovo", "Somewhere">>

StrLess(a, b) ==
    (CHOOSE i \in 1..Len(NameOrder) : NameOrder[i] = a)
        < (CHOOSE i \in 1..Len(NameOrder) : NameOrder[i] = b)

RECURSIVE InsertSorted(_, _)
InsertSorted(x, s) ==
    IF s = <<>> THEN <<x>>
    ELSE IF StrLess(x, Head(s)) THEN <<x>> \o s
         ELSE <<Head(s)>> \o InsertSorted(x, Tail(s))

\* sorted(list)
RECURSIVE sorted(_)
sorted(s) == IF s = <<>> THEN <<>> ELSE InsertSorted(s[Len(s)], sorted(SubSeq(s, 1, Len(s) - 1)))

\* data_df.loc[mask, data_country_column]: the country column of the rows
CountryColumn(rows) == [i \in 1..Len(rows) |-> Val(rows[i].Country)]

\* the upper-cased non-missing values of a column, as a set
UpperCodes(frame, column) ==
    {upper(Val(frame[i][column])) : i \in {n \in 1..Len(frame) : ~isna(frame[n][column])}}

\* faulty variant of verify_country_merge: the codes absent from the shapefile are
\* not looked for
verify_missing_iso_only(data_df, world_gdf, data_iso_column, shapefile_iso_column) ==
    LET MissingIso(r) == isna(r[data_iso_column])
        total_missing == Unique(CountryColumn(SelectSeq(data_df, MissingIso)))
    IN  IF total_missing # <<>> THEN Some(sorted(total_missing)) ELSE Null

\* what verify_country_merge prints: Null, or Some(the sorted names)
verify_country_merge(data_df, world_gdf, data_iso_column, shapefile_iso_column) ==
    LET MissingIso(r) == isna(r[data_iso_column])
        missing_iso_countries == Unique(CountryColumn(SelectSeq(data_df, MissingIso)))
        data_iso_codes == UpperCodes(data_df, data_iso_column)
        shapefile_iso_codes == UpperCodes(world_gdf, shapefile_iso_column)
        missing_iso_codes == data_iso_codes \ shapefile_iso_codes
        InMissing(r) == /\ ~isna(r[data_iso_column])
                        /\ upper(Val(r[data_iso_column])) \in missing_iso_codes
        missing_iso_codes_countries ==
            IF missing_iso_codes = {} THEN <<>>
            ELSE Unique(CountryColumn(SelectSeq(data_df, InMissing)))
        total_missing == missing_iso_countries \o missing_iso_codes_countries
    IN  IF total_missing # <<>> THEN Some(sorted(total_missing)) ELSE Null

-----------------------------------------------------------------------------
(* Openness map: prepare_geodataframe (part_000:72-110) *)

\* df['ISO Code'] = df['ISO Code'].str.strip().str.upper()
NormaliseIsoCode(frame) ==
    [i \in 1..Len(frame) |-> [frame[i] EXCEPT !.ISO_Code = StrStripUpper(@)]]

OpennessColumns == {"Country", "Openness_Score", "URL", "ISO_Code", "color"}

\* faulty variant of fillna: the missing cells are left as they are
fillna_nothing(cell, value) == cell

\* Series.fillna(value) on one cell
fillna(cell, value) == IF isna(cell) THEN Some(value) ELSE cell

\* the popup link of a row, or the literal 'No link'
OpennessLink(url, country) ==
    IF ~isna(url)
    THEN Some("<a href=\"" \o Val(url) \o "\" target=\"_blank\">Click through to "
              \o Val(country) \o " register</a>")
    ELSE Some("No link")

\* lines 86-108 on one merged row: fill, link, sovereign, columns_to_keep
OpennessFillRow(row) ==
    LET country == fillna(row.Country, row.name)
        link    == OpennessLink(row.URL, country)
    IN  [Country |-> country,
         Openness_Score |-> fillna(row.Openness_Score, 0),
         popup_html |-> link,
         Sovereign_state |-> row.sovereign,
         color |-> fillna(row.color, "#ffffff"),
         tolerance |-> row.tolerance,
         poly |-> row.poly, rec |-> row.rec]

OpennessFill(merged) == [i \in 1..Len(merged) |-> OpennessFillRow(merged[i])]

-----------------------------------------------------------------------------
(* Openness map on world-administrative-boundaries: prepare_geodataframe
   (part_000:273-302) *)

WabLink(url) ==
    IF ~isna(url)
    THEN Some("<a href=\"" \o Val(url) \o "\" target=\"_blank\">Click through to details</a>")
    ELSE Some("No link")

WabFillRow(row) ==
    [row EXCEPT !.color = fillna(@, "#ffffff"),
                !.Country = fillna(@, row.name),
                !.Openness_Score = fillna(@, 0),
                !.URL = WabLink(@)]

\* gpd.read_file raises when there is no file; the key is stripped and upper-cased
prepare_geodataframe_wab(frame) ==
    IF isna(shapefile) THEN Raise("DataSourceError")
    ELSE LET raw    == Val(shapefile)
             polys  == [i \in 1..Len(raw) |->
                          [key |-> StrStripUpper(raw[i].key), name |-> raw[i].name]]
             merged == MergeLeft(polys, NormaliseIsoCode(frame), OpennessColumns,
                                 "key", "ISO_Code")
         IN  Return([i \in 1..Len(merged) |-> WabFillRow(merged[i])])

-----------------------------------------------------------------------------
(* Openness map on Natural Earth map units: prepare_geodataframe
   (part_000:476-511) *)

NeFillRow(row) ==
    LET filled == WabFillRow(row)
    IN  filled @@ [Sovereign_state |-> row.sovereign, popup_html |-> filled.URL]

\* None when there is no file at the path, else the merged and filled table
prepare_geodataframe_ne(frame) ==
    IF isna(shapefile) THEN Null
    ELSE LET raw    == Val(shapefile)
             polys  == [i \in 1..Len(raw) |->
                          [key |-> StrStripUpper(raw[i].key), name |-> raw[i].name,
                           sovereign |-> raw[i].sovereign]]
             merged == MergeLeft(polys, NormaliseIsoCode(frame), OpennessColumns,
                                 "key", "ISO_Code")
         IN  Some([i \in 1..Len(merged) |-> NeFillRow(merged[i])])

-----------------------------------------------------------------------------
(* Beneficial-ownership map: countries_with_open_BO_registries.py *)

DEFAULT_COLOR == "#dc3545"

\* the rows pd.read_excel can return
SheetRows ==
    { [Country |-> Some("France"), ISO2 |-> Some(<<"F","R">>),
       Who_can_access |-> Some("Public"), Register_launched |-> Some(2017),
       Link |-> Some("https://fr.example/rbe")],
      [Country |-> Some("Bolivia"), ISO2 |-> Some(<<"b","o">>),
       Who_can_access |-> Some("Closed"), Register_launched |-> Null,
       Link |-> Null],
      [Country |-> Some("Kosovo"), ISO2 |-> Some(<<"X","K">>),
       Who_can_access |-> Some("PUBLIC register"), Register_launched |-> Some(2020),
       Link |-> Null],
      [Country |-> Some("French Guiana"), ISO2 |-> Some(<<"F","R">>),
       Who_can_access |-> Null, Register_launched |-> Null,
       Link |-> Null],
      [Country |-> Some("Somewhere"), ISO2 |-> Null,
       Who_can_access |-> Null, Register_launched |-> Null,
       Link |-> Null] }

Sheets == SeqsUpTo(SheetRows, MaxRecords)

\* the sheets the flat script is run with
VariantSheets == {rows \in Sheets : Len(rows) < MaxRecords}

\* 'public' in str(access).lower(), for the access texts of SheetRows
\* (str(NaN) is 'nan')
ContainsPublic(access) ==
    IF isna(access) THEN FALSE ELSE Val(access) \in {"Public", "PUBLIC register"}

\* faulty variant of get_color: a missing access value gets the default colour
get_color_default_for_missing(access) ==
    LET COLOR_MAP == [public |-> "#28a745", closed |-> "#ff7f0e"]
        k == IF ContainsPublic(access) THEN "public" ELSE "closed"
    IN  IF isna(access) THEN DEFAULT_COLOR ELSE COLOR_MAP[k]

\* COLOR_MAP.get('public' if ... else 'closed', DEFAULT_COLOR)
get_color(access) ==
    LET COLOR_MAP == [public |-> "#28a745", closed |-> "#ff7f0e"]
        k == IF ContainsPublic(access) THEN "public" ELSE "closed"
    IN  IF k \in DOMAIN COLOR_MAP THEN COLOR_MAP[k] ELSE DEFAULT_COLOR

\* pycountry.countries.get(alpha_2=...): the record, or None
GetAlpha2(code) ==
    CASE code = <<"F","R">> -> Some([alpha_3 |-> <<"F","R","A">>])
      [] code = <<"B","O">> -> Some([alpha_3 |-> <<"B","O","L">>])
      [] OTHER -> Null

\* faulty variant of convert_iso2_to_iso3: an unknown code converts to NaN
convert_iso2_to_iso3_lenient(iso2_code) ==
    IF isna(iso2_code) THEN Return(Null)
    ELSE LET country == GetAlpha2(upper(Val(iso2_code)))
         IN  IF isna(country) THEN Return(Null)
             ELSE Return(Some(Val(country).alpha_3))

convert_iso2_to_iso3(iso2_code) ==
    IF isna(iso2_code) THEN Return(Null)
    ELSE LET country == GetAlpha2(upper(Val(iso2_code)))
         IN  IF isna(country) THEN Raise("Exception")   \* from the AttributeError
             ELSE Return(Some(Val(country).alpha_3))

\* df['ISO3'] = df['ISO2'].apply(convert_iso2_to_iso3)
RECURSIVE ApplyConvert(_)
ApplyConvert(frame) ==
    IF frame = <<>> THEN Return(<<>>)
    ELSE LET first == convert_iso2_to_iso3(Head(frame).ISO2)
             rest  == ApplyConvert(Tail(frame))
         IN  IF first.exc # "" THEN Raise(first.exc)
             ELSE IF rest.exc # "" THEN Raise(rest.exc)
             ELSE Return(<<Head(frame) @@ [ISO3 |-> first.value]>> \o rest.value)

\* load_data: [df, world], or the exception of the conversion or of read_file
load_data(rows) ==
    LET converted == ApplyConvert(rows)
    IN  IF converted.exc # "" THEN Raise(converted.exc)
        ELSE IF isna(shapefile) THEN Raise("DataSourceError")
        ELSE LET raw == Val(shapefile)
             IN  Return([df |-> converted.value,
                         world |-> [i \in 1..Len(raw) |->
                                      [key |-> StrStrip(raw[i].key),
                                       name |-> raw[i].name]]])

BoColumns == {"Country", "ISO2", "ISO3", "Who_can_access", "Register_launched",
              "Link", "color"}

BoLink(x) ==
    IF ~isna(x)
    THEN Some("<a href=\"" \o Val(x) \o "\" target=\"_blank\">Open Register</a>")
    ELSE Some("No link")

\* fillna('No register'), then str(int(x)) of a number
BoLaunched(x) == IF isna(x) THEN Some("No register") ELSE Some(ToString(Val(x)))

BoFillRow(row) ==
    [row EXCEPT !.color = fillna(@, DEFAULT_COLOR),
                !.Country = fillna(@, row.name),
                !.Register_launched = BoLaunched(@),
                !.Who_can_access = fillna(@, "No register"),
                !.Link = BoLink(@)]

preprocess_data(frame, polys) ==
    LET coloured == [i \in 1..Len(frame) |->
                        frame[i] @@ [color |-> Some(get_color(frame[i].Who_can_access))]]
        merged   == MergeLeft(polys, coloured, BoColumns, "key", "ISO3")
    IN  [i \in 1..Len(merged) |-> BoFillRow(merged[i])]

-----------------------------------------------------------------------------
(* Beneficial-ownership map as a flat script:
   countries_with_open_registries_html.py *)

\* get_color of the flat script: no default colour at all
get_color_html(access) ==
    IF ContainsPublic(access) THEN "#28a745" ELSE "#ff7f0e"

HtmlColumns == {"Country", "ISO2", "Who_can_access", "Register_launched", "Link",
                "color"}

\* lines 19-22: read_file and the stripped ISO_A2 key, or read_file's exception
html_world ==
    IF isna(shapefile) THEN Raise("DataSourceError")
    ELSE LET raw == Val(shapefile)
         IN  Return([i \in 1..Len(raw) |->
                        [key |-> StrStrip(raw[i].a2), name |-> raw[i].name]])

\* line 25: df['color'] = df['Who can access'].apply(get_color)
html_colour(frame) ==
    [i \in 1..Len(frame) |->
        frame[i] @@ [color |-> Some(get_color_html(frame[i].Who_can_access))]]

\* lines 28-41: the merge on ISO_A2 = ISO2 and the fills
html_merge_fill(frame, polys) ==
    LET merged == MergeLeft(polys, frame, HtmlColumns, "key", "ISO2")
    IN  [i \in 1..Len(merged) |-> BoFillRow(merged[i])]

-----------------------------------------------------------------------------
(* The runs of the scripts *)

Scripts == {"openness", "wab", "ne", "bo", "html"}

Scrapers == {"openness", "wab", "ne"}

NoCall == /\ name_in = "" /\ iso_out = Null /\ area_in = 0 /\ tol_out = Null

Init ==
    /\ script \in Scripts
    /\ pc = "start"
    /\ registry \in (IF script \in Scrapers THEN InstalledRegistries ELSE {PyCountryAlpha3})
    /\ page \in CASE script = "openness" -> Pages
                 [] script \in {"wab", "ne"} -> VariantPages
                 [] OTHER -> {[status |-> 200, rows |-> <<>>]}
    /\ sheet \in CASE script = "bo" -> Sheets
                  [] script = "html" -> VariantSheets
                  [] OTHER -> {<<>>}
    /\ shapefile \in Shapefiles
    /\ df = <<>>
    /\ world = <<>>
    /\ report = Null
    /\ output = Null
    /\ log = <<>>
    /\ NoCall

\* faulty variant of FetchCountryData: main goes on with an empty list
FetchCountryData_no_check ==
    /\ script \in Scrapers
    /\ pc = "start"
    /\ LET got == IF script = "ne" THEN fetch_country_data_ne(page.rows)
                  ELSE fetch_country_data(page, script = "wab")
       IN  IF got.exc # ""
           THEN /\ pc' = "raised" /\ df' = df
                /\ log' = log \o <<"fetch_country_data", "raise " \o got.exc>>
           ELSE /\ pc' = "fetched" /\ df' = got.value
                /\ log' = log \o <<"fetch_country_data">>
    /\ UNCHANGED <<script, registry, page, sheet, shapefile, world, report, output>>
    /\ UNCHANGED callVars

\* main, part_000:176-179 (371-373, 585-588): fetch; no data ends the run
FetchCountryData ==
    /\ script \in Scrapers
    /\ pc = "start"
    /\ LET got == IF script = "ne" THEN fetch_country_data_ne(page.rows)
                  ELSE fetch_country_data(page, script = "wab")
       IN  IF got.exc # ""
           THEN /\ pc' = "raised" /\ df' = df
                /\ log' = log \o <<"fetch_country_data", "raise " \o got.exc>>
           ELSE IF got.value = <<>>
           THEN /\ pc' = "done" /\ df' = df
                /\ log' = log \o <<"fetch_country_data", "print No country data fetched">>
           ELSE /\ pc' = "fetched" /\ df' = got.value
                /\ log' = log \o <<"fetch_country_data">>
    /\ UNCHANGED <<script, registry, page, sheet, shapefile, world, report, output>>
    /\ UNCHANGED callVars

\* main, part_000:181-182: create_dataframe, assign_colors
BuildDataframe ==
    /\ pc = "fetched"
    /\ df' = assign_colors(create_dataframe(df))
    /\ pc' = "framed"
    /\ log' = log \o <<"create_dataframe", "assign_colors">>
    /\ UNCHANGED <<script, registry, page, sheet, shapefile, world, report, output>>
    /\ UNCHANGED callVars

\* main, part_000:184: world = create_world()
CreateWorld ==
    /\ script = "openness"
    /\ pc = "framed"
    /\ LET got == create_world
       IN  IF got.exc # ""
           THEN /\ pc' = "raised" /\ world' = world
                /\ log' = log \o <<"create_world", "raise Shapefile not found">>
           ELSE /\ pc' = "world" /\ world' = got.value
                /\ log' = log \o <<"create_world">>
    /\ UNCHANGED <<script, registry, page, sheet, shapefile, df, report, output>>
    /\ UNCHANGED callVars

\* prepare_geodataframe, part_000:74-77: normalise the records' codes, merge
MergeStep ==
    /\ pc = "world"
    /\ df' = NormaliseIsoCode(df)
    /\ world' = MergeLeft(world, df', OpennessColumns, "key", "ISO_Code")
    /\ pc' = "merged"
    /\ log' = log \o <<"merge">>
    /\ UNCHANGED <<script, registry, page, sheet, shapefile, report, output>>
    /\ UNCHANGED callVars

\* faulty variant of VerifyStep: a non-empty report aborts the run
VerifyStep_fatal ==
    /\ pc = "merged"
    /\ report' = verify_country_merge(df, world, "ISO_Code", "key")
    /\ pc' = IF isna(report') THEN "verified" ELSE "raised"
    /\ log' = log \o <<"verify_country_merge">>
    /\ UNCHANGED <<script, registry, page, sheet, shapefile, df, world, output>>
    /\ UNCHANGED callVars

\* prepare_geodataframe, part_000:79-84: the verifier on df and the merged table
VerifyStep ==
    /\ pc = "merged"
    /\ report' = verify_country_merge(df, world, "ISO_Code", "key")
    /\ pc' = "verified"
    /\ log' = log \o <<"verify_country_merge">>
    /\ UNCHANGED <<script, registry, page, sheet, shapefile, df, world, output>>
    /\ UNCHANGED callVars

\* prepare_geodataframe, part_000:86-110: fill, link, columns_to_keep
FillStep ==
    /\ pc = "verified"
    /\ world' = OpennessFill(world)
    /\ pc' = "prepared"
    /\ log' = log \o <<"fillna">>
    /\ UNCHANGED <<script, registry, page, sheet, shapefile, df, report, output>>
    /\ UNCHANGED callVars

\* main, part_000:377: prepare_geodataframe(df, path) of the wab script
PrepareWab ==
    /\ script = "wab"
    /\ pc = "framed"
    /\ LET got == prepare_geodataframe_wab(df)
       IN  IF got.exc # ""
           THEN /\ pc' = "raised" /\ world' = world /\ df' = df
                /\ log' = log \o <<"read_file", "raise " \o got.exc>>
           ELSE /\ pc' = "prepared" /\ world' = got.value /\ df' = NormaliseIsoCode(df)
                /\ log' = log \o <<"read_file", "merge", "fillna">>
    /\ UNCHANGED <<script, registry, page, sheet, shapefile, report, output>>
    /\ UNCHANGED callVars

\* main, part_000:592-596: prepare_geodataframe of the Natural Earth script;
\* None ends the run
PrepareNe ==
    /\ script = "ne"
    /\ pc = "framed"
    /\ LET world_gdf == prepare_geodataframe_ne(df)
       IN  IF isna(world_gdf)
           THEN /\ pc' = "done" /\ world' = world /\ df' = df
                /\ log' = log \o <<"print Shapefile not found",
                                   "print GeoDataFrame preparation failed">>
           ELSE /\ pc' = "prepared" /\ world' = Val(world_gdf)
                /\ df' = NormaliseIsoCode(df)
                /\ log' = log \o <<"read_file", "merge", "fillna">>
    /\ UNCHANGED <<script, registry, page, sheet, shapefile, report, output>>
    /\ UNCHANGED callVars

\* main, countries_with_open_BO_registries.py:138: load_data
LoadData ==
    /\ script = "bo"
    /\ pc = "start"
    /\ LET got == load_data(sheet)
       IN  IF got.exc # "" THEN pc' = "raised" /\ world' = world /\ df' = df
           ELSE pc' = "loaded" /\ world' = got.value.world /\ df' = got.value.df
    /\ log' = log \o <<"read_excel", "convert_iso2_to_iso3">>
                  \o (IF ApplyConvert(sheet).exc # "" THEN <<"raise Exception">>
                      ELSE <<"read_file">>
                           \o (IF isna(shapefile) THEN <<"raise DataSourceError">>
                               ELSE <<>>))
    /\ UNCHANGED <<script, registry, page, sheet, shapefile, report, output>>
    /\ UNCHANGED callVars

\* main, countries_with_open_BO_registries.py:142: preprocess_data
PreprocessData ==
    /\ script = "bo"
    /\ pc = "loaded"
    /\ world' = preprocess_data(df, world)
    /\ df' = [i \in 1..Len(df) |-> df[i] @@ [color |-> Some(get_color(df[i].Who_can_access))]]
    /\ pc' = "prepared"
    /\ log' = log \o <<"merge", "fillna">>
    /\ UNCHANGED <<script, registry, page, sheet, shapefile, report, output>>
    /\ UNCHANGED callVars

\* countries_with_open_registries_html.py:9-22: the two reads
ReadInputs ==
    /\ script = "html"
    /\ pc = "start"
    /\ LET got == html_world
       IN  IF got.exc # ""
           THEN /\ pc' = "raised" /\ world' = world /\ df' = df
                /\ log' = log \o <<"read_excel", "read_file", "raise " \o got.exc>>
           ELSE /\ pc' = "loaded" /\ world' = got.value /\ df' = sheet
                /\ log' = log \o <<"read_excel", "read_file">>
    /\ UNCHANGED <<script, registry, page, sheet, shapefile, report, output>>
    /\ UNCHANGED callVars

\* countries_with_open_registries_html.py:25-41: colour, merge, fills
ColourMergeFill ==
    /\ script = "html"
    /\ pc = "loaded"
    /\ df' = html_colour(df)
    /\ world' = html_merge_fill(df', world)
    /\ pc' = "prepared"
    /\ log' = log \o <<"merge", "fillna">>
    /\ UNCHANGED <<script, registry, page, sheet, shapefile, report, output>>
    /\ UNCHANGED callVars

\* faulty variant of SaveMap: the polygon table is also drawn as it was loaded
SaveMap_unmerged ==
    /\ pc \in {"world", "prepared"}
    /\ output' = Some(world)
    /\ pc' = "done"
    /\ log' = log \o <<"create_map", "save">>
    /\ UNCHANGED <<script, registry, page, sheet, shapefile, df, world, report>>
    /\ UNCHANGED callVars

\* create_map(world) and save: the file holds the rows it was given
SaveMap ==
    /\ pc = "prepared"
    /\ output' = Some(world)
    /\ pc' = "done"
    /\ log' = log \o <<"create_map", "save">>
    /\ UNCHANGED <<script, registry, page, sheet, shapefile, df, world, report>>
    /\ UNCHANGED callVars

Next ==
    \/ FetchCountryData
    \/ BuildDataframe
    \/ CreateWorld
    \/ MergeStep
    \/ VerifyStep
    \/ FillStep
    \/ PrepareWab
    \/ PrepareNe
    \/ LoadData
    \/ PreprocessData
    \/ ReadInputs
    \/ ColourMergeFill
    \/ SaveMap

Spec == Init /\ [][Next]_vars

-----------------------------------------------------------------------------
(* Stand-alone calls of the two pure functions *)

NoRun ==
    /\ pc = "call"
    /\ page = [status |-> 200, rows |-> <<>>]
    /\ sheet = <<>>
    /\ shapefile = Null
    /\ df = <<>>
    /\ world = <<>>
    /\ report = Null
    /\ output = Null
    /\ log = <<>>

\* the names get_iso_code is called with: the override table's keys, the
\* registry's names, and a name in neither
ResolverNames == DOMAIN manual_mappings \cup DOMAIN PyCountryAlpha3 \cup {"Atlantis"}

InitIso ==
    /\ script = "get_iso_code"
    /\ NoRun
    /\ registry \in Registries
    /\ name_in \in ResolverNames
    /\ iso_out = Null
    /\ area_in = 0
    /\ tol_out = Null

CallGetIsoCode ==
    /\ script = "get_iso_code"
    /\ iso_out = Null
    /\ iso_out' = Some(get_iso_code(name_in))
    /\ UNCHANGED <<registry, name_in, area_in, tol_out>>
    /\ UNCHANGED pipelineVars

NextIso == CallGetIsoCode

SpecIso == InitIso /\ [][NextIso]_vars

InitTol ==
    /\ script = "assign_tolerance"
    /\ NoRun
    /\ registry = PyCountryAlpha3
    /\ name_in = ""
    /\ iso_out = Null
    /\ area_in \in 0..MaxArea
    /\ tol_out = Null

CallAssignTolerance ==
    /\ script = "assign_tolerance"
    /\ tol_out = Null
    /\ tol_out' = Some(assign_tolerance(area_in))
    /\ UNCHANGED <<registry, name_in, iso_out, area_in>>
    /\ UNCHANGED pipelineVars

NextTol == CallAssignTolerance

SpecTol == InitTol /\ [][NextTol]_vars

\* the record tables verify_country_merge is called with: any names with any
\* codes, the same name with different codes included
RecordTables ==
    SeqsUpTo({[Country |-> Some(n), ISO_Code |-> c] :
                 n \in {"Atlantis", "Kosovo"},
                 c \in {Null, Some(<<"F","R","A">>), Some(<<"X","K","X">>)}},
             MaxRecords)

\* the polygon tables it is called with: their ISO key column
PolygonTables ==
    SeqsUpTo({[key |-> Some(<<"F","R","A">>)], [key |-> Null]}, MaxPolygons)

InitVerify ==
    /\ script = "verify_country_merge"
    /\ pc = "call"
    /\ registry = PyCountryAlpha3
    /\ page = [status |-> 200, rows |-> <<>>]
    /\ sheet = <<>>
    /\ shapefile = Null
    /\ df \in RecordTables
    /\ world \in PolygonTables
    /\ report = Null
    /\ output = Null
    /\ log = <<>>
    /\ NoCall

CallVerifyCountryMerge ==
    /\ script = "verify_country_merge"
    /\ pc = "call"
    /\ report' = verify_country_merge(df, world, "ISO_Code", "key")
    /\ pc' = "returned"
    /\ UNCHANGED <<script, registry, page, sheet, shapefile, df, world, output, log>>
    /\ UNCHANGED callVars

NextVerify == CallVerifyCountryMerge

SpecVerify == InitVerify /\ [][NextVerify]_vars

-----------------------------------------------------------------------------
(* Properties of the merge *)

\* world holds a merged table
Merged ==
    \/ pc \in {"merged", "verified", "prepared"}
    \/ pc = "done" /\ ~isna(output)

\* world holds a merged table with the defaults filled
Filled == pc = "prepared" \/ (pc = "done" /\ ~isna(output))

\* the polygons' join keys as the script normalises them before the merge
PolygonKeys ==
    LET raw == Val(shapefile)
    IN  [i \in 1..Len(raw) |->
            CASE script = "bo" -> StrStrip(raw[i].key)
              [] script = "html" -> StrStrip(raw[i].a2)
              [] OTHER -> StrStripUpper(raw[i].key)]

\* the records' join key column
RecordKey(r) ==
    CASE script = "bo" -> r.ISO3
      [] script = "html" -> r.ISO2
      [] OTHER -> r.ISO_Code

\* the merged rows that come from polygon i
RowsOfPolygon(i) == {n \in 1..Len(world) : world[n].poly = i}

\* C1: the merged table has exactly len(P) rows and every polygon of P appears
\* in it exactly once, for every polygon set P and record set R (duplicate and
\* absent iso_codes included)
C1_LeftJoinCardinality ==
    Merged =>
        /\ Len(world) = Len(Val(shapefile))
        /\ \A i \in 1..Len(Val(shapefile)) : Cardinality(RowsOfPolygon(i)) = 1

\* the records that carry the same, present, code as record j
SameCode(j) ==
    {k \in 1..Len(df) : ~isna(RecordKey(df[j])) /\ RecordKey(df[k]) = RecordKey(df[j])}

\* C2: when two or more records carry the same iso_code, the polygon with that
\* code appears once in the merged result, with the attributes of exactly one
\* of those records
C2_DuplicateCodeMergesOnce ==
    (Merged /\ script = "openness") =>
        \A j \in 1..Len(df) : \A i \in 1..Len(PolygonKeys) :
            (Cardinality(SameCode(j)) >= 2 /\ PolygonKeys[i] = RecordKey(df[j])) =>
                /\ Cardinality(RowsOfPolygon(i)) = 1
                /\ \A n \in RowsOfPolygon(i) : world[n].rec \in SameCode(j)

\* the colour, link, score and access-label cells of a filled row
ColourOfUnmatched == IF script \in {"bo", "html"} THEN "#dc3545" ELSE "#ffffff"

LinkCell(row) ==
    CASE script = "openness" -> row.popup_html
      [] script \in {"wab", "ne"} -> row.URL
      [] OTHER -> row.Link

Present(cell) == ~isna(cell) /\ Val(cell) # ""

\* C3: after the fill step every polygon without a matching record has the
\* default colour ('#ffffff' openness, '#dc3545' beneficial ownership) and the
\* literal 'No link', and no merged row has a null or empty colour, link,
\* score or access label
C3_DefaultsFilled ==
    Filled =>
        \A n \in 1..Len(world) :
            /\ world[n].rec = 0 =>
                  /\ world[n].color = Some(ColourOfUnmatched)
                  /\ LinkCell(world[n]) = Some("No link")
            /\ Present(world[n].color)
            /\ Present(LinkCell(world[n]))
            /\ script \in Scrapers => ~isna(world[n].Openness_Score)
            /\ script \in {"bo", "html"} => Present(world[n].Who_can_access)

\* a filled beneficial-ownership table with an unmatched polygon and a matched
\* one whose record has neither link nor access text
C3_Witness ==
    /\ script = "bo"
    /\ pc = "prepared"
    /\ \E n \in 1..Len(world) : world[n].rec = 0
    /\ \E n \in 1..Len(world) :
          /\ world[n].rec # 0
          /\ isna(df[world[n].rec].Link)
          /\ isna(df[world[n].rec].Who_can_access)

\* the records whose code is present and is the code of no polygon
Orphans ==
    LET keys == PolygonKeys
    IN  {j \in 1..Len(df) :
            /\ ~isna(df[j].ISO_Code)
            /\ \A i \in 1..Len(keys) : keys[i] # df[j].ISO_Code}

RemoveAt(s, j) == SubSeq(s, 1, j - 1) \o SubSeq(s, j + 1, Len(s))

Verified == script = "openness" /\ pc \in {"verified", "prepared"}

\* C4: a record whose iso_code is present but is the code of no polygon is
\* named in verify_country_merge's report, and the merged table has as many
\* rows as the merge without that record
C4_OrphanReported ==
    Verified =>
        \A j \in Orphans :
            /\ ~isna(report)
            /\ Val(df[j].Country) \in Range(Val(report))
            /\ Len(world) = Len(MergeLeft(create_world.value, RemoveAt(df, j),
                                          OpennessColumns, "key", "ISO_Code"))

\* verification is over with an orphan record next to a record that matched
C4_Witness ==
    /\ Verified
    /\ Orphans # {}
    /\ \E n \in 1..Len(world) : world[n].rec # 0

\* C5: a record whose iso_code is absent is attached to no polygon at all,
\* polygons whose own ISO key is missing included
C5_UnresolvedStaysUnmatched ==
    (Merged /\ script \in {"openness", "wab"}) =>
        \A j \in 1..Len(df) :
            isna(df[j].ISO_Code) => \A n \in 1..Len(world) : world[n].rec # j

\* a stand-alone call of verify_country_merge has returned
VerifierReturned == script = "verify_country_merge" /\ pc = "returned"

\* the names of the records with an absent iso_code
AbsentCodeNames == {Val(df[j].Country) : j \in {k \in 1..Len(df) : isna(df[k].ISO_Code)}}

\* the names of the records whose iso_code is the key of no polygon
NoPolygonNames ==
    {Val(df[j].Country) :
        j \in {k \in 1..Len(df) :
                 /\ ~isna(df[k].ISO_Code)
                 /\ \A i \in 1..Len(world) : world[i].key # df[k].ISO_Code}}

\* strictly ascending: sorted, and no name twice
StrictlyAscending(names) ==
    \A i \in 1..Len(names) : \A k \in 1..Len(names) : i < k => StrLess(names[i], names[k])

\* C13: for any record table, the report is the union of the names of the
\* records with an absent iso_code and of the records whose iso_code is in no
\* polygon, every name listed exactly once (also when it occurs in both
\* groups), in ascending order; nothing is emitted when both groups are empty
C13_ReportIsSortedUnion ==
    VerifierReturned =>
        IF AbsentCodeNames \cup NoPolygonNames = {} THEN isna(report)
        ELSE /\ ~isna(report)
             /\ Range(Val(report)) = AbsentCodeNames \cup NoPolygonNames
             /\ StrictlyAscending(Val(report))

-----------------------------------------------------------------------------
(* Properties of the ISO resolver *)

Resolved == script = "get_iso_code" /\ ~isna(iso_out)

\* exactly 3 characters, all of them uppercase ASCII letters
IsAlpha3(code) == Len(code) = 3 /\ \A i \in 1..Len(code) : code[i] \in Range(UpperLetters)

\* C6: get_iso_code never raises; it returns the canonical registry's code when
\* the canonical lookup succeeds, otherwise the override table's code when the
\* name is a key of that table, otherwise None
C6_ResolverTotal ==
    Resolved =>
        /\ Val(iso_out).exc = ""
        /\ Val(iso_out).value =
              IF name_in \in DOMAIN registry THEN Some(registry[name_in])
              ELSE IF name_in \in DOMAIN manual_mappings
                   THEN Some(manual_mappings[name_in])
                   ELSE Null

\* a name found in neither the registry nor the override table was resolved
C6_Witness ==
    /\ Resolved
    /\ name_in \notin DOMAIN registry
    /\ name_in \notin DOMAIN manual_mappings
    /\ Val(iso_out) = Return(Null)

\* C7: every code get_iso_code returns is exactly 3 uppercase ASCII letters, and
\* still is after the strip-and-uppercase step applied to the records' column
C7_CodeIsAlpha3 ==
    (Resolved /\ ~isna(Val(iso_out).value)) =>
        /\ IsAlpha3(Val(Val(iso_out).value))
        /\ IsAlpha3(Val(StrStripUpper(Val(iso_out).value)))
        /\ StrStripUpper(Val(iso_out).value) = Val(iso_out).value

\* a code was returned from the override table
C7_Witness ==
    /\ Resolved
    /\ name_in = "Kosovo"
    /\ Val(iso_out).value = Some(<<"X","K","X">>)

\* C8: for a key of the override table whose canonical lookup fails,
\* get_iso_code returns the override table's code; "Bolivia" gives "BOL"
C8_OverrideOnLookupFailure ==
    (Resolved /\ name_in \in DOMAIN manual_mappings /\ name_in \notin DOMAIN registry) =>
        /\ Val(iso_out) = Return(Some(manual_mappings[name_in]))
        /\ name_in = "Bolivia" => Val(iso_out).value = Some(<<"B","O","L">>)

\* "Bolivia" was resolved with a registry whose lookup of it fails
C8_Witness ==
    /\ Resolved
    /\ name_in = "Bolivia"
    /\ "Bolivia" \notin DOMAIN registry
    /\ Val(iso_out).value = Some(<<"B","O","L">>)

\* the keys the override table maps to their sovereign state's code
SubTerritories == {"French Guiana", "Guadeloupe", "Martinique", "Mayotte", "Réunion"}

\* C9: the sub-territory names of the override table are resolved to "FRA"
\* whatever the canonical registry contains for them
C9_SubTerritoryToSovereign ==
    (Resolved /\ name_in \in SubTerritories) =>
        Val(iso_out).value = Some(<<"F","R","A">>)

-----------------------------------------------------------------------------
(* Properties of the tolerance buckets *)

Assigned == script = "assign_tolerance" /\ ~isna(tol_out)

\* C10: 0.001 for area < 1000, 0.005 for 1000 <= area < 10000, 0.05 for
\* 10000 <= area < 100000, 0.1 for area >= 100000: one of the four values for
\* every area, an area equal to a bound falling into the coarser bucket
C10_Buckets ==
    Assigned =>
        /\ area_in < 1000 => Val(tol_out) = Some(1)
        /\ (1000 <= area_in /\ area_in < 10000) => Val(tol_out) = Some(5)
        /\ (10000 <= area_in /\ area_in < 100000) => Val(tol_out) = Some(50)
        /\ area_in >= 100000 => Val(tol_out) = Some(100)
        /\ Val(tol_out) \in {Some(1), Some(5), Some(50), Some(100)}

\* an area equal to the last finite bound got the coarsest tolerance
C10_Witness == Assigned /\ area_in = 100000 /\ Val(tol_out) = Some(100)

\* the areas just below and at each finite threshold, and the smallest area
ProbeAreas == {0, 999, 1000, 9999, 10000, 99999, 100000}

\* the areas assign_tolerance(area_in) is compared with
ComparedAreas == ProbeAreas \cup {a \in {area_in - 1, area_in + 1} : a >= 0}

\* t1 <= t2 for two returned tolerances (None compares with nothing)
ToleranceLeq(t1, t2) == ~isna(t1) /\ ~isna(t2) /\ Val(t1) <= Val(t2)

\* C11: assign_tolerance is monotonic non-decreasing: for all areas a1 <= a2,
\* assign_tolerance(a1) <= assign_tolerance(a2)
C11_Monotonic ==
    Assigned =>
        \A a \in ComparedAreas :
            /\ a <= area_in => ToleranceLeq(assign_tolerance(a), Val(tol_out))
            /\ area_in <= a => ToleranceLeq(Val(tol_out), assign_tolerance(a))

\* an area of the second bucket was assigned a tolerance above that of the
\* area just below it, which is in the first bucket
C11_Witness ==
    /\ Assigned
    /\ area_in = 1000
    /\ Val(Val(tol_out)) > Val(assign_tolerance(area_in - 1))

-----------------------------------------------------------------------------
(* Properties of the runs *)

\* the run is over: main returned or an exception left it
Ended == pc \in {"done", "raised"}

Logged(entry) == entry \in Range(log)

\* the missing geometry source was reported: the exception of create_world or
\* of gpd.read_file, or the message of the Natural Earth script
SourceFailureReported ==
    \/ Logged("raise Shapefile not found")
    \/ Logged("raise DataSourceError")
    \/ Logged("print Shapefile not found")

\* no merge, no render, no map file
NothingDrawn ==
    /\ ~Logged("merge")
    /\ ~Logged("create_map")
    /\ ~Logged("save")
    /\ isna(output)
    /\ pc \notin {"world", "loaded", "merged", "verified", "prepared"}

\* the records were obtained, so the run got as far as the geometry source
RecordsObtained ==
    CASE script \in Scrapers -> Logged("create_dataframe")
      [] script = "bo" -> ApplyConvert(sheet).exc = ""
      [] OTHER -> TRUE

\* C12 as stated: in every run in which the geometry source file does not
\* exist, the failure is reported, the run ends without merging or rendering,
\* and the output map file is never written
C12_MissingSourceReported ==
    isna(shapefile) =>
        /\ NothingDrawn
        /\ Ended => SourceFailureReported

\* C12 amended: with no geometry source file there is no merge, no render and
\* no map file in any run; the failure is reported, as the last thing the run
\* does, in the runs that obtained their records and so reached the file
C12_MissingSourceFatal ==
    isna(shapefile) =>
        /\ NothingDrawn
        /\ (Ended /\ RecordsObtained) =>
              /\ SourceFailureReported
              /\ log[Len(log)] \in {"raise Shapefile not found", "raise DataSourceError",
                                     "print GeoDataFrame preparation failed"}
        /\ (Ended /\ ~RecordsObtained) => ~SourceFailureReported

\* the openness run fetched records and create_world raised for the missing file
C12_Witness ==
    /\ script = "openness"
    /\ isna(shapefile)
    /\ pc = "raised"
    /\ df # <<>>
    /\ log[Len(log)] = "raise Shapefile not found"

\* the records whose code is absent
Unresolved == {j \in 1..Len(df) : isna(df[j].ISO_Code)}

\* C14: the merge verifier is advisory: in every run of the openness pipeline
\* where verification finds unresolved or orphaned records, it only reports
\* them (the merged table is as the merge left it), the table still holds
\* every polygon, with the defaults filled by the fill step, and the run is
\* never stopped: the fill is enabled after verification, render and save
\* after the fill, and the finished run has written the map
C14_VerifierAdvisory ==
    (script = "openness" /\ Logged("verify_country_merge")
        /\ (Unresolved # {} \/ Orphans # {})) =>
        /\ ~isna(report)
        /\ LET names == Range(Val(report))
           IN  \A j \in Unresolved \cup Orphans : Val(df[j].Country) \in names
        /\ pc \in {"verified", "prepared", "done"}
        /\ \A i \in 1..Len(Val(shapefile)) : RowsOfPolygon(i) # {}
        /\ pc = "verified" =>
              /\ world = MergeLeft(create_world.value, df, OpennessColumns,
                                   "key", "ISO_Code")
              /\ ENABLED FillStep
        /\ pc \in {"prepared", "done"} =>
              \A n \in 1..Len(world) :
                  /\ Present(world[n].color)
                  /\ Present(world[n].popup_html)
                  /\ Present(world[n].Country)
                  /\ ~isna(world[n].Openness_Score)
                  /\ world[n].rec = 0 =>
                        /\ world[n].color = Some("#ffffff")
                        /\ world[n].popup_html = Some("No link")
                        /\ world[n].Openness_Score = Some(0)
        /\ pc = "prepared" => ENABLED SaveMap
        /\ pc = "done" =>
              /\ output = Some(world)
              /\ SubSeq(log, Len(log) - 1, Len(log)) = <<"create_map", "save">>

\* an openness run with an unresolved record and an orphaned one wrote its map
\* with an unmatched polygon in it
C14_Witness ==
    /\ script = "openness"
    /\ pc = "done"
    /\ ~isna(output)
    /\ ~isna(report)
    /\ Unresolved # {}
    /\ Orphans # {}
    /\ \E n \in 1..Len(world) : world[n].rec = 0

\* the key of polygon i as the geometry source holds it
RawPolygonKey(i) ==
    IF script = "html" THEN Val(shapefile)[i].a2 ELSE Val(shapefile)[i].key

\* polygon i and record j carry codes that are equal once stripped and
\* upper-cased
EqualAfterNormalising(i, j) ==
    /\ ~isna(RawPolygonKey(i))
    /\ ~isna(RecordKey(df[j]))
    /\ StrStripUpper(RawPolygonKey(i)) = StrStripUpper(RecordKey(df[j]))

\* C15: in every script variant the polygon ISO key is stripped and upper-cased
\* before the join, so a polygon and a record are joined whenever their codes
\* are equal after stripping and upper-casing
C15_JoinedWhenEqualNormalised ==
    Merged =>
        \A i \in 1..Len(Val(shapefile)) : \A j \in 1..Len(df) :
            EqualAfterNormalising(i, j) =>
                \E n \in 1..Len(world) : world[n].poly = i /\ world[n].rec = j

\* the steps of the openness pipeline in the order main takes them
OpennessOrder ==
    <<"fetch_country_data", "create_dataframe", "assign_colors", "create_world",
      "merge", "verify_country_merge", "fillna", "create_map", "save">>

\* the steps taken so far, without the failures reported
StepsTaken ==
    LET IsStep(entry) == entry \in Range(OpennessOrder)
    IN  SelectSeq(log, IsStep)

IsPrefix(s, t) == Len(s) <= Len(t) /\ SubSeq(t, 1, Len(s)) = s

\* C16: in every run of the openness pipeline the steps happen in this order,
\* each at most once: records fetched and each given an ISO code, polygon table
\* loaded, merge, verification, default fill, render, save; the map file is
\* written only after merge and verification have completed
C16_StepOrder ==
    script = "openness" =>
        /\ IsPrefix(StepsTaken, OpennessOrder)
        /\ df # <<>> =>
              /\ Logged("fetch_country_data")
              /\ \A j \in 1..Len(df) : "ISO_Code" \in DOMAIN df[j]
        /\ world # <<>> => Logged("create_world")
        /\ (\E n \in 1..Len(world) : "rec" \in DOMAIN world[n]) => Logged("merge")
        /\ ~isna(report) => Logged("verify_country_merge")
        /\ ~isna(output) =>
              /\ Logged("merge")
              /\ Logged("verify_country_merge")
              /\ StepsTaken = OpennessOrder
              /\ Val(output) = world

\* an openness run went through all its steps and wrote the map
C16_Witness ==
    /\ script = "openness"
    /\ pc = "done"
    /\ ~isna(output)
    /\ StepsTaken = OpennessOrder

\* record j's attributes are in some merged row
Attached(j) == \E n \in 1..Len(world) : world[n].rec = j

\* record j's country name is in the verifier's report
Named(j) == ~isna(report) /\ Val(df[j].Country) \in Range(Val(report))

\* C17: after merge and verification a record's country name is in the
\* verifier's report exactly when its attributes are in no merged row: every
\* record is attached to at least one polygon or named in the report, never both
C17_AttachedOrNamed ==
    Verified => \A j \in 1..Len(df) : Named(j) <=> ~Attached(j)

-----------------------------------------------------------------------------
(* Properties of the beneficial-ownership map *)

\* a beneficial-ownership table is merged and filled
BoFilled == script \in {"bo", "html"} /\ Filled

Red(row) == row.color = Some("#dc3545")

NoRegisterLabel(row) == row.Who_can_access = Some("No register")

\* get_color gave every record green or orange, green for the access texts
\* that contain 'public'
RecordsGreenOrOrange ==
    \A j \in 1..Len(df) :
        df[j].color = IF ContainsPublic(df[j].Who_can_access)
                      THEN Some("#28a745") ELSE Some("#ff7f0e")

\* C18 as stated: get_color returns only green or orange, never the default
\* red; after preprocess_data a polygon is red exactly when no record matched
\* it, and exactly when its 'Who can access' label is 'No register'
C18_RedIffNoRegister ==
    BoFilled =>
        /\ RecordsGreenOrOrange
        /\ \A n \in 1..Len(world) :
              /\ Red(world[n]) <=> world[n].rec = 0
              /\ Red(world[n]) <=> NoRegisterLabel(world[n])

\* C18 amended: get_color returns only green or orange; a polygon is red
\* exactly when no record matched it; a red polygon is labelled 'No register',
\* and so is, in orange, a polygon matched by a record without access value
C18_RedIffUnmatched ==
    BoFilled =>
        /\ RecordsGreenOrOrange
        /\ \A n \in 1..Len(world) :
              /\ Red(world[n]) <=> world[n].rec = 0
              /\ Red(world[n]) => NoRegisterLabel(world[n])
              /\ NoRegisterLabel(world[n]) <=>
                    \/ world[n].rec = 0
                    \/ isna(df[world[n].rec].Who_can_access)

\* a filled beneficial-ownership table with a red polygon and an orange one
\* labelled 'No register', matched on a present code
C18_Witness ==
    /\ script = "bo"
    /\ pc = "prepared"
    /\ \E n \in 1..Len(world) : Red(world[n])
    /\ \E n \in 1..Len(world) :
          /\ world[n].rec # 0
          /\ ~isna(world[n].key)
          /\ world[n].color = Some("#ff7f0e")
          /\ NoRegisterLabel(world[n])

-----------------------------------------------------------------------------
(* Properties of the failures that end a run early *)

\* the scrape failed or found no rows
ScrapeFailed == page.status # 200 \/ page.rows = <<>>

UnknownIso2 ==
    {j \in 1..Len(sheet) :
        ~isna(sheet[j].ISO2) /\ isna(GetAlpha2(upper(Val(sheet[j].ISO2))))}

\* C20: in the beneficial-ownership pipeline convert_iso2_to_iso3 returns NaN
\* for a missing ISO2 value and the 3-letter code for a known one, but raises
\* for a present ISO2 code unknown to the registry; a single unknown code
\* aborts load_data before the shapefile is read: no merge, no map file
C20_UnknownIso2Aborts ==
    script = "bo" =>
        /\ \A j \in 1..Len(sheet) :
              LET got == convert_iso2_to_iso3(sheet[j].ISO2)
              IN  /\ isna(sheet[j].ISO2) => got = Return(Null)
                  /\ j \in UnknownIso2 => got.exc # ""
                  /\ (~isna(sheet[j].ISO2) /\ j \notin UnknownIso2) =>
                        /\ got.exc = ""
                        /\ ~isna(got.value)
                        /\ IsAlpha3(Val(got.value))
                        /\ SubSeq(Val(got.value), 1, 1) =
                              SubSeq(upper(Val(sheet[j].ISO2)), 1, 1)
        /\ pc \in {"loaded", "prepared"} =>
              \A j \in 1..Len(df) : df[j].ISO3 = convert_iso2_to_iso3(sheet[j].ISO2).value
        /\ UnknownIso2 # {} =>
              /\ pc \in {"start", "raised"}
              /\ pc = "raised" =>
                    log = <<"read_excel", "convert_iso2_to_iso3", "raise Exception">>
              /\ ~Logged("read_file")
              /\ ~Logged("merge")
              /\ df = <<>>
              /\ world = <<>>
              /\ isna(output)

\* load_data raised on a sheet with one unknown code among known and missing
\* ones, with a geometry source ready to be read
C20_Witness ==
    /\ script = "bo"
    /\ pc = "raised"
    /\ Cardinality(UnknownIso2) = 1
    /\ Len(sheet) = 3
    /\ \E j \in 1..Len(sheet) : isna(sheet[j].ISO2)
    /\ ~isna(shapefile)
    /\ ~Logged("read_file")

====
